---- MODULE Spec2Model ----
(***************************************************************************)
(* A model of src/Main.py: a FastAPI service that stores sprites, audio    *)
(* clips and player scores in three MongoDB collections (db.sprites,       *)
(* db.audio, db.scores) and exposes create / read / update / delete        *)
(* handlers for each.                                                      *)
(*                                                                         *)
(* Text the code or its libraries look into (identifiers, base64 text,     *)
(* JSON strings) is a sequence of one-character strings; text they only    *)
(* carry (file names, MIME types, messages) is a string.  Bytes are        *)
(* numbers 0..255 and a bson ObjectId is its 12 bytes.  The store is       *)
(* assumed reachable: connection failures are outside the model.           *)
(***************************************************************************)
EXTENDS Integers, Sequences, FiniteSets, TLC

(***************************************************************************)
(* Bounds of the model.                                                    *)
(***************************************************************************)
\* how many ObjectIds the driver generates in one behaviour
MaxIds == 2
\* longest file content (in bytes) drawn for the codec specification
MaxLen == 3

\* byte values the file contents are drawn from
ByteSample == {0, 80, 137, 255}

(***************************************************************************)
(* base64.b64encode(content).decode("utf-8")  (lines 31, 45, 97, 115)      *)
(***************************************************************************)
B64Alphabet ==
  << "A","B","C","D","E","F","G","H","I","J","K","L","M","N","O","P",
     "Q","R","S","T","U","V","W","X","Y","Z","a","b","c","d","e","f",
     "g","h","i","j","k","l","m","n","o","p","q","r","s","t","u","v",
     "w","x","y","z","0","1","2","3","4","5","6","7","8","9","+","/" >>

B64Char(n) == B64Alphabet[n + 1]

\* faulty variant of the encoder: the final partial group is dropped
\* instead of padded
RECURSIVE b64encode_nopad(_)
b64encode_nopad(content) ==
  IF Len(content) < 3 THEN <<>>
  ELSE LET n == content[1] * 65536 + content[2] * 256 + content[3]
       IN  << B64Char(n \div 262144), B64Char((n \div 4096) % 64),
              B64Char((n \div 64) % 64), B64Char(n % 64) >>
           \o b64encode_nopad(SubSeq(content, 4, Len(content)))

\* standard alphabet, "=" padding, no line wrapping; the result of
\* .decode("utf-8") on the ASCII output is the same characters as text
RECURSIVE b64encode(_)
b64encode(content) ==
  IF Len(content) = 0 THEN <<>>
  ELSE IF Len(content) = 1 THEN
       LET n == content[1] * 65536
       IN  << B64Char(n \div 262144), B64Char((n \div 4096) % 64), "=", "=" >>
  ELSE IF Len(content) = 2 THEN
       LET n == content[1] * 65536 + content[2] * 256
       IN  << B64Char(n \div 262144), B64Char((n \div 4096) % 64),
              B64Char((n \div 64) % 64), "=" >>
  ELSE LET n == content[1] * 65536 + content[2] * 256 + content[3]
       IN  << B64Char(n \div 262144), B64Char((n \div 4096) % 64),
              B64Char((n \div 64) % 64), B64Char(n % 64) >>
           \o b64encode(SubSeq(content, 4, Len(content)))

\* the inverse transform the stored text is meant to support
\* (base64.b64decode; the service itself never decodes)
B64Table == [c \in {B64Alphabet[i] : i \in 1..64} |-> (CHOOSE i \in 1..64 : B64Alphabet[i] = c) - 1]
B64Index(c) == B64Table[c]

RECURSIVE b64decode(_)
b64decode(text) ==
  IF Len(text) < 4 THEN <<>>
  ELSE LET a == B64Index(text[1])
           b == B64Index(text[2])
           rest == SubSeq(text, 5, Len(text))
       IN  IF text[3] = "=" THEN << (a * 4 + b \div 16) % 256 >>
           ELSE IF text[4] = "=" THEN
                LET c == B64Index(text[3])
                IN  << (a * 4 + b \div 16) % 256,
                       ((b % 16) * 16 + c \div 4) % 256 >>
           ELSE LET c == B64Index(text[3])
                    d == B64Index(text[4])
                IN  << (a * 4 + b \div 16) % 256,
                       ((b % 16) * 16 + c \div 4) % 256,
                       ((c % 4) * 64 + d) % 256 >> \o b64decode(rest)

(***************************************************************************)
(* bson.ObjectId: ObjectId(text) and str(oid)  (line 5)                    *)
(***************************************************************************)
HexLower == << "0","1","2","3","4","5","6","7","8","9","a","b","c","d","e","f" >>
HexUpper == << "0","1","2","3","4","5","6","7","8","9","A","B","C","D","E","F" >>

HexTable ==
  [c \in {HexLower[i] : i \in 1..16} \cup {HexUpper[i] : i \in 1..16} |->
     (CHOOSE i \in 1..16 : HexLower[i] = c \/ HexUpper[i] = c) - 1]
IsHex(c) == c \in DOMAIN HexTable
HexVal(c) == HexTable[c]

\* ObjectId(text) accepts exactly 24 hexadecimal characters; anything else
\* raises bson.errors.InvalidId
ObjectIdValid(text) == Len(text) = 24 /\ \A i \in 1..24 : IsHex(text[i])

\* the 12 bytes of ObjectId(text), for a valid text
ObjectId(text) == [i \in 1..12 |-> HexVal(text[2 * i - 1]) * 16 + HexVal(text[2 * i])]

\* str(oid): 24 lower-case hexadecimal characters
ObjectIdStr(oid) ==
  [i \in 1..24 |-> IF i % 2 = 1 THEN HexLower[(oid[(i + 1) \div 2] \div 16) + 1]
                                ELSE HexLower[(oid[i \div 2] % 16) + 1]]

(***************************************************************************)
(* JSON values of a request body, and pydantic's validation of            *)
(* PlayerScore  (lines 20-22).  A JSON value is a number or a string; both *)
(* fields are always present in the record so that values stay comparable. *)
(***************************************************************************)
JInt(n) == [kind |-> "int", int |-> n, str |-> <<>>]
JStr(s) == [kind |-> "str", int |-> 0, str |-> s]

Digits == << "0","1","2","3","4","5","6","7","8","9" >>
DigitTable == [c \in {Digits[i] : i \in 1..10} |-> (CHOOSE i \in 1..10 : Digits[i] = c) - 1]
IsDigit(c) == c \in DOMAIN DigitTable
DigitVal(c) == DigitTable[c]

\* int(text) of Python, for an unsigned decimal numeral
IsNumeral(s) == Len(s) > 0 /\ \A i \in 1..Len(s) : IsDigit(s[i])

RECURSIVE ParseInt(_)
ParseInt(s) ==
  IF Len(s) = 0 THEN 0
  ELSE ParseInt(SubSeq(s, 1, Len(s) - 1)) * 10 + DigitVal(s[Len(s)])

\* the field `score: int`: pydantic (versions 1 and 2 alike, in their
\* default lax mode) takes an integer as it is and converts a numeric
\* string with int(); any other string is a validation error
int_ok(j) == j.kind = "int" \/ (j.kind = "str" /\ IsNumeral(j.str))
int_value(j) == IF j.kind = "int" THEN j.int ELSE ParseInt(j.str)

\* the field `player_name: str`: a JSON string is taken as it is.  (What a
\* JSON number does here differs between pydantic 1, which converts it, and
\* pydantic 2, which refuses it; the repository pins neither, and the
\* requests of this model carry string names only.)
str_ok(j) == j.kind = "str"
str_value(j) == j.str

\* PlayerScore(**body) succeeds
PlayerScoreValid(body) == str_ok(body.player_name) /\ int_ok(body.score)

\* PlayerScore(**body).dict()
PlayerScoreDict(body) ==
  [player_name |-> str_value(body.player_name), score |-> int_value(body.score)]

(***************************************************************************)
(* The store: a collection is the set of its documents; every document     *)
(* carries its ObjectId in the field _id.                                  *)
(***************************************************************************)
Ids(coll) == {d._id : d \in coll}

\* the ObjectId the driver generates for the n-th insert.  A real ObjectId
\* is a timestamp, a per-process random value and a counter; the model
\* keeps the counter, which is what makes two generated ids differ.
NewObjectId(n) == [i \in 1..12 |-> IF i = 12 THEN n ELSE IF i = 1 THEN 171 ELSE 0]

\* $set / dict merge: the fields of `fields` replace or extend those of doc
Merge(doc, fields) ==
  [f \in DOMAIN doc \cup DOMAIN fields |-> IF f \in DOMAIN fields THEN fields[f] ELSE doc[f]]

\* faulty variant of insert: the driver hands out the id of the previous
\* insert again
insert_one_stale_id(coll, doc, n) ==
  LET oid == NewObjectId(IF n > 1 THEN n - 1 ELSE n)
  IN  [inserted_id |-> oid, coll |-> coll \cup {Merge(doc, [_id |-> oid])}]

\* collection.insert_one(doc): the document gets a fresh _id and is added
insert_one(coll, doc, n) ==
  LET oid == NewObjectId(n)
  IN  [inserted_id |-> oid, coll |-> coll \cup {Merge(doc, [_id |-> oid])}]

\* collection.find_one({"_id": oid}): the matching document, or None
\* (the empty set here)
find_one(coll, oid) ==
  LET found == {d \in coll : d._id = oid}
  IN  IF found = {} THEN {} ELSE {CHOOSE d \in found : TRUE}

\* faulty variant of update: update_one(..., upsert=True) creates the
\* missing document
update_one_upsert(coll, oid, fields) ==
  LET found == {d \in coll : d._id = oid}
  IN  IF found = {}
      THEN [matched_count |-> 0, coll |-> coll \cup {Merge([_id |-> oid], fields)}]
      ELSE LET d == CHOOSE d \in found : TRUE
           IN  [matched_count |-> 1, coll |-> (coll \ {d}) \cup {Merge(d, fields)}]

\* faulty variant of update: once the id matches, every document of the
\* collection is rewritten (update_many with too wide a filter)
update_one_all(coll, oid, fields) ==
  LET found == {d \in coll : d._id = oid}
  IN  [matched_count |-> IF found = {} THEN 0 ELSE 1,
       coll |-> IF found = {} THEN coll ELSE {Merge(d, fields) : d \in coll}]

\* collection.update_one({"_id": oid}, {"$set": fields}): no upsert
update_one(coll, oid, fields) ==
  LET found == {d \in coll : d._id = oid}
  IN  IF found = {}
      THEN [matched_count |-> 0, coll |-> coll]
      ELSE LET d == CHOOSE d \in found : TRUE
           IN  [matched_count |-> 1, coll |-> (coll \ {d}) \cup {Merge(d, fields)}]

\* faulty variant of delete: the document is reported deleted and stays
delete_one_keep(coll, oid) ==
  LET found == {d \in coll : d._id = oid}
  IN  [deleted_count |-> IF found = {} THEN 0 ELSE 1, coll |-> coll]

\* collection.delete_one({"_id": oid})
delete_one(coll, oid) ==
  LET found == {d \in coll : d._id = oid}
  IN  IF found = {}
      THEN [deleted_count |-> 0, coll |-> coll]
      ELSE [deleted_count |-> 1, coll |-> coll \ {CHOOSE d \in found : TRUE}]

(***************************************************************************)
(* State.                                                                  *)
(***************************************************************************)
VARIABLES
  db,              \* db.sprites, db.audio, db.scores: the three collections
  oid_counter,     \* how many ObjectIds the driver has generated
  req,             \* the request handled last
  resp,            \* the response to it
  acked,           \* history: per collection, the last acknowledged write of each id
  tasks            \* handlers in flight (used by the concurrent specification)

vars == << db, oid_counter, req, resp, acked, tasks >>

(***************************************************************************)
(* Requests and responses.                                                 *)
(***************************************************************************)
NoId == <<>>
NoFile == [filename |-> "", content |-> <<>>, content_type |-> ""]
NoBody == [player_name |-> JStr(<<>>), score |-> JInt(0)]

Request(handler, id, file, body) ==
  [handler |-> handler, id |-> id, file |-> file, body |-> body]

\* a handler's return value that the framework could encode as JSON
Ok(content) == [status |-> 200, body |-> content]

\* raise HTTPException(status_code=404, detail=...)
HTTPException(status_code, detail) == [status |-> status_code, body |-> [detail |-> detail]]

\* an exception other than HTTPException leaves the handler: the framework
\* answers 500 Internal Server Error
InternalServerError == [status |-> 500, body |-> [detail |-> "Internal Server Error"]]

\* the request body does not validate against PlayerScore: the framework
\* answers 422 before the handler runs
RequestValidationError == [status |-> 422, body |-> [detail |-> "value is not a valid PlayerScore"]]

\* FastAPI encodes the returned dict with jsonable_encoder.  str and int
\* values encode; the bson ObjectId a stored document carries under _id has
\* no encoder, the encoder raises ValueError and the answer is a 500.
serialize_response(content) ==
  IF "_id" \in DOMAIN content THEN InternalServerError ELSE Ok(content)

(***************************************************************************)
(* Inputs the requests are drawn from.                                     *)
(***************************************************************************)
PngFile == [filename |-> "a.png", content |-> << 137, 80, 78, 71 >>, content_type |-> "image/png"]
EmptyFile == [filename |-> "b.wav", content |-> <<>>, content_type |-> "audio/wav"]
Files == {PngFile, EmptyFile}

Al == JStr(<< "A", "l" >>)
Bo == JStr(<< "B", "o" >>)
Bodies ==
  { [player_name |-> Al, score |-> JInt(5)],
    [player_name |-> Bo, score |-> JStr(<< "9" >>)],
    [player_name |-> Al, score |-> JStr(<< "x" >>)] }

NotAValidId == << "n","o","t","-","a","-","v","a","l","i","d","-","i","d" >>

\* the ids the driver can generate (issued or not yet) and a malformed one
IdTexts == {ObjectIdStr(NewObjectId(n)) : n \in 1..MaxIds} \cup {NotAValidId}

(***************************************************************************)
(* The routes by collection and by operation.                              *)
(***************************************************************************)
CollOf(handler) ==
  IF handler \in {"upload_sprite", "get_sprite", "update_sprite", "delete_sprite"} THEN "sprites"
  ELSE IF handler \in {"upload_audio", "get_audio", "update_audio", "delete_audio"} THEN "audio"
  ELSE "scores"

Creates == {"upload_sprite", "upload_audio", "add_score"}
Reads == {"get_sprite", "get_audio", "get_score"}
Updates == {"update_sprite", "update_audio", "update_score"}
Deletes == {"delete_sprite", "delete_audio", "delete_score"}

(***************************************************************************)
(* History of acknowledged writes, kept beside the program state: for each *)
(* identifier, the last Create, Update or Delete answered 200 and its      *)
(* input.                                                                  *)
(***************************************************************************)
InputOf(r) == IF CollOf(r.handler) = "scores" THEN r.body ELSE r.file

Ack(a, r, p) ==
  LET c == CollOf(r.handler)
      set(id, by, input) ==
        [a EXCEPT ![c] = {e \in a[c] : e.id # id} \cup {[id |-> id, by |-> by, input |-> input]}]
  IN  IF p.status # 200 \/ r.handler \in Reads THEN a
      ELSE IF r.handler \in Creates THEN set(ObjectId(p.body.id), "create", InputOf(r))
      ELSE IF r.handler \in Updates THEN set(ObjectId(r.id), "update", InputOf(r))
      ELSE set(ObjectId(r.id), "delete", InputOf(r))

(***************************************************************************)
(* The twelve handlers.  Each action is one request handled from start to  *)
(* end.  ObjectId(text) is evaluated while the store call's filter is      *)
(* built; when it raises InvalidId nothing catches it.                     *)
(***************************************************************************)
\* POST /upload_sprite
upload_sprite(file) ==
  LET encoded == b64encode(file.content)
      sprite_doc == [filename |-> file.filename, content_base64 |-> encoded,
                     content_type |-> file.content_type]
      result == insert_one(db.sprites, sprite_doc, oid_counter + 1)
  IN  /\ oid_counter < MaxIds
      /\ req' = Request("upload_sprite", NoId, file, NoBody)
      /\ db' = [db EXCEPT !.sprites = result.coll]
      /\ oid_counter' = oid_counter + 1
      /\ resp' = serialize_response([message |-> "Sprite uploaded",
                                     id |-> ObjectIdStr(result.inserted_id)])
      /\ UNCHANGED tasks

\* POST /upload_audio
upload_audio(file) ==
  LET encoded == b64encode(file.content)
      audio_doc == [filename |-> file.filename, content_base64 |-> encoded,
                     content_type |-> file.content_type]
      result == insert_one(db.audio, audio_doc, oid_counter + 1)
  IN  /\ oid_counter < MaxIds
      /\ req' = Request("upload_audio", NoId, file, NoBody)
      /\ db' = [db EXCEPT !.audio = result.coll]
      /\ oid_counter' = oid_counter + 1
      /\ resp' = serialize_response([message |-> "Audio uploaded",
                                     id |-> ObjectIdStr(result.inserted_id)])
      /\ UNCHANGED tasks

\* POST /player_score
add_score(body) ==
  /\ req' = Request("add_score", NoId, NoFile, body)
  /\ IF ~PlayerScoreValid(body)
     THEN /\ resp' = RequestValidationError
          /\ UNCHANGED << db, oid_counter >>
     ELSE LET score == PlayerScoreDict(body)
              result == insert_one(db.scores, score, oid_counter + 1)
          IN  /\ oid_counter < MaxIds
              /\ db' = [db EXCEPT !.scores = result.coll]
              /\ oid_counter' = oid_counter + 1
              /\ resp' = serialize_response([message |-> "Score recorded",
                                             id |-> ObjectIdStr(result.inserted_id)])
  /\ UNCHANGED tasks

\* GET /get_sprite/{sprite_id}
get_sprite(sprite_id) ==
  /\ req' = Request("get_sprite", sprite_id, NoFile, NoBody)
  /\ resp' = IF ~ObjectIdValid(sprite_id) THEN InternalServerError
             ELSE LET sprite == find_one(db.sprites, ObjectId(sprite_id))
                  IN  IF sprite = {} THEN HTTPException(404, "Sprite not found")
                      ELSE serialize_response(CHOOSE d \in sprite : TRUE)
  /\ UNCHANGED << db, oid_counter >>
  /\ UNCHANGED tasks

\* GET /get_audio/{audio_id}
get_audio(audio_id) ==
  /\ req' = Request("get_audio", audio_id, NoFile, NoBody)
  /\ resp' = IF ~ObjectIdValid(audio_id) THEN InternalServerError
             ELSE LET audio == find_one(db.audio, ObjectId(audio_id))
                  IN  IF audio = {} THEN HTTPException(404, "Audio not found")
                      ELSE serialize_response(CHOOSE d \in audio : TRUE)
  /\ UNCHANGED << db, oid_counter >>
  /\ UNCHANGED tasks

\* GET /get_score/{score_id}
get_score(score_id) ==
  /\ req' = Request("get_score", score_id, NoFile, NoBody)
  /\ resp' = IF ~ObjectIdValid(score_id) THEN InternalServerError
             ELSE LET score == find_one(db.scores, ObjectId(score_id))
                  IN  IF score = {} THEN HTTPException(404, "Score not found")
                      ELSE serialize_response(CHOOSE d \in score : TRUE)
  /\ UNCHANGED << db, oid_counter >>
  /\ UNCHANGED tasks

\* PUT /update_sprite/{sprite_id}
update_sprite(sprite_id, file) ==
  LET encoded == b64encode(file.content)
      fields == [filename |-> file.filename, content_base64 |-> encoded,
                 content_type |-> file.content_type]
  IN  /\ req' = Request("update_sprite", sprite_id, file, NoBody)
      /\ IF ~ObjectIdValid(sprite_id)
         THEN /\ resp' = InternalServerError
              /\ db' = db
         ELSE LET update_result == update_one(db.sprites, ObjectId(sprite_id), fields)
              IN  /\ db' = [db EXCEPT !.sprites = update_result.coll]
                  /\ resp' = IF update_result.matched_count = 0
                             THEN HTTPException(404, "Sprite not found")
                             ELSE serialize_response([message |-> "Sprite updated"])
      /\ UNCHANGED oid_counter
      /\ UNCHANGED tasks

\* PUT /update_audio/{audio_id}
update_audio(audio_id, file) ==
  LET encoded == b64encode(file.content)
      fields == [filename |-> file.filename, content_base64 |-> encoded,
                 content_type |-> file.content_type]
  IN  /\ req' = Request("update_audio", audio_id, file, NoBody)
      /\ IF ~ObjectIdValid(audio_id)
         THEN /\ resp' = InternalServerError
              /\ db' = db
         ELSE LET update_result == update_one(db.audio, ObjectId(audio_id), fields)
              IN  /\ db' = [db EXCEPT !.audio = update_result.coll]
                  /\ resp' = IF update_result.matched_count = 0
                             THEN HTTPException(404, "Audio not found")
                             ELSE serialize_response([message |-> "Audio updated"])
      /\ UNCHANGED oid_counter
      /\ UNCHANGED tasks

\* PUT /update_score/{score_id}
update_score(score_id, body) ==
  /\ req' = Request("update_score", score_id, NoFile, body)
  /\ IF ~PlayerScoreValid(body)
     THEN /\ resp' = RequestValidationError
          /\ db' = db
     ELSE IF ~ObjectIdValid(score_id)
     THEN /\ resp' = InternalServerError
          /\ db' = db
     ELSE LET updated_score == PlayerScoreDict(body)
              update_result == update_one(db.scores, ObjectId(score_id), updated_score)
          IN  /\ db' = [db EXCEPT !.scores = update_result.coll]
              /\ resp' = IF update_result.matched_count = 0
                         THEN HTTPException(404, "Score not found")
                         ELSE serialize_response([message |-> "Score updated"])
  /\ UNCHANGED oid_counter
  /\ UNCHANGED tasks

\* DELETE /delete_sprite/{sprite_id}
delete_sprite(sprite_id) ==
  /\ req' = Request("delete_sprite", sprite_id, NoFile, NoBody)
  /\ IF ~ObjectIdValid(sprite_id)
     THEN /\ resp' = InternalServerError
          /\ db' = db
     ELSE LET delete_result == delete_one(db.sprites, ObjectId(sprite_id))
          IN  /\ db' = [db EXCEPT !.sprites = delete_result.coll]
              /\ resp' = IF delete_result.deleted_count = 0
                         THEN HTTPException(404, "Sprite not found")
                         ELSE serialize_response([message |-> "Sprite deleted"])
  /\ UNCHANGED oid_counter
  /\ UNCHANGED tasks

\* DELETE /delete_audio/{audio_id}
delete_audio(audio_id) ==
  /\ req' = Request("delete_audio", audio_id, NoFile, NoBody)
  /\ IF ~ObjectIdValid(audio_id)
     THEN /\ resp' = InternalServerError
          /\ db' = db
     ELSE LET delete_result == delete_one(db.audio, ObjectId(audio_id))
          IN  /\ db' = [db EXCEPT !.audio = delete_result.coll]
              /\ resp' = IF delete_result.deleted_count = 0
                         THEN HTTPException(404, "Audio not found")
                         ELSE serialize_response([message |-> "Audio deleted"])
  /\ UNCHANGED oid_counter
  /\ UNCHANGED tasks

\* DELETE /delete_score/{score_id}
delete_score(score_id) ==
  /\ req' = Request("delete_score", score_id, NoFile, NoBody)
  /\ IF ~ObjectIdValid(score_id)
     THEN /\ resp' = InternalServerError
          /\ db' = db
     ELSE LET delete_result == delete_one(db.scores, ObjectId(score_id))
          IN  /\ db' = [db EXCEPT !.scores = delete_result.coll]
              /\ resp' = IF delete_result.deleted_count = 0
                         THEN HTTPException(404, "Score not found")
                         ELSE serialize_response([message |-> "Score deleted"])
  /\ UNCHANGED oid_counter
  /\ UNCHANGED tasks

(***************************************************************************)
(* The service handling one request after another.                         *)
(***************************************************************************)
Init ==
  /\ db = [sprites |-> {}, audio |-> {}, scores |-> {}]
  /\ oid_counter = 0
  /\ req = Request("none", NoId, NoFile, NoBody)
  /\ resp = Ok([message |-> "none"])
  /\ acked = [sprites |-> {}, audio |-> {}, scores |-> {}]
  /\ tasks = <<>>

Next ==
  \/ \E file \in Files : upload_sprite(file) /\ UNCHANGED acked
  \/ \E file \in Files : upload_audio(file) /\ UNCHANGED acked
  \/ \E body \in Bodies : add_score(body) /\ UNCHANGED acked
  \/ \E id \in IdTexts : get_sprite(id) /\ UNCHANGED acked
  \/ \E id \in IdTexts : get_audio(id) /\ UNCHANGED acked
  \/ \E id \in IdTexts : get_score(id) /\ UNCHANGED acked
  \/ \E id \in IdTexts, file \in Files : update_sprite(id, file) /\ UNCHANGED acked
  \/ \E id \in IdTexts, file \in Files : update_audio(id, file) /\ UNCHANGED acked
  \/ \E id \in IdTexts, body \in Bodies : update_score(id, body) /\ UNCHANGED acked
  \/ \E id \in IdTexts : delete_sprite(id) /\ UNCHANGED acked
  \/ \E id \in IdTexts : delete_audio(id) /\ UNCHANGED acked
  \/ \E id \in IdTexts : delete_score(id) /\ UNCHANGED acked

Spec == Init /\ [][Next]_vars

(***************************************************************************)
(* The same service with the history of acknowledged writes recorded.      *)
(***************************************************************************)
NextHistory ==
  \/ \E file \in Files : upload_sprite(file) /\ acked' = Ack(acked, req', resp')
  \/ \E file \in Files : upload_audio(file) /\ acked' = Ack(acked, req', resp')
  \/ \E body \in Bodies : add_score(body) /\ acked' = Ack(acked, req', resp')
  \/ \E id \in IdTexts : get_sprite(id) /\ acked' = Ack(acked, req', resp')
  \/ \E id \in IdTexts : get_audio(id) /\ acked' = Ack(acked, req', resp')
  \/ \E id \in IdTexts : get_score(id) /\ acked' = Ack(acked, req', resp')
  \/ \E id \in IdTexts, file \in Files : update_sprite(id, file) /\ acked' = Ack(acked, req', resp')
  \/ \E id \in IdTexts, file \in Files : update_audio(id, file) /\ acked' = Ack(acked, req', resp')
  \/ \E id \in IdTexts, body \in Bodies : update_score(id, body) /\ acked' = Ack(acked, req', resp')
  \/ \E id \in IdTexts : delete_sprite(id) /\ acked' = Ack(acked, req', resp')
  \/ \E id \in IdTexts : delete_audio(id) /\ acked' = Ack(acked, req', resp')
  \/ \E id \in IdTexts : delete_score(id) /\ acked' = Ack(acked, req', resp')

SpecHistory == Init /\ [][NextHistory]_vars

(***************************************************************************)
(* Vocabulary of the properties.                                           *)
(***************************************************************************)
Colls == {"sprites", "audio", "scores"}

NotFound(handler) ==
  HTTPException(404, IF CollOf(handler) = "sprites" THEN "Sprite not found"
                     ELSE IF CollOf(handler) = "audio" THEN "Audio not found"
                     ELSE "Score not found")

\* the request got past the framework's validation of its body
BodyAccepted(r) == r.handler \in {"add_score", "update_score"} => PlayerScoreValid(r.body)

\* ObjectIds the driver has generated so far
Issued == {NewObjectId(n) : n \in 1..oid_counter}

\* no two documents of the collection carry the same _id
Unique(coll) == Cardinality(Ids(coll)) = Cardinality(coll)

\* the informational fields of a returned record equal the input of the write
InfoEquals(c, body, input) ==
  IF c = "scores"
  THEN /\ input.player_name.kind = "str" /\ body.player_name = input.player_name.str
       /\ input.score.kind = "int" /\ body.score = input.score.int
  ELSE /\ body.filename = input.filename
       /\ body.content_base64 = b64encode(input.content)
       /\ body.content_type = input.content_type

(***************************************************************************)
(* C1: a Read, Update or Delete whose identifier text does not parse into  *)
(* an ObjectId is answered with a client error (4xx) that is neither the   *)
(* not-found answer nor the server error of an unexpected failure.         *)
(***************************************************************************)
C1_MalformedIdIsClientError ==
  (req.handler \in Reads \cup Updates \cup Deletes /\ ~ObjectIdValid(req.id))
    => /\ resp.status \in 400..499
       /\ resp.status # 404
       /\ resp # InternalServerError

(***************************************************************************)
(* C2: a Read of an identifier whose last acknowledged write is the Create *)
(* that returned it succeeds and returns the informational fields of the   *)
(* Create input.                                                           *)
(***************************************************************************)
C2_CreateThenReadRoundTrip ==
  (req.handler \in Reads /\ ObjectIdValid(req.id))
    => \A e \in acked[CollOf(req.handler)] :
         (e.id = ObjectId(req.id) /\ e.by = "create")
           => /\ resp.status = 200
              /\ InfoEquals(CollOf(req.handler), resp.body, e.input)

(***************************************************************************)
(* C3: a Read, Update or Delete with a well-formed identifier that         *)
(* addresses no record of the target collection answers not-found and      *)
(* leaves every collection as it was (an Update creates nothing).          *)
(***************************************************************************)
C3_AbsentIdIsNotFound ==
  [][ ( /\ req'.handler \in Reads \cup Updates \cup Deletes
        /\ BodyAccepted(req')
        /\ ObjectIdValid(req'.id)
        /\ ObjectId(req'.id) \notin Ids(db[CollOf(req'.handler)]) )
      => (resp' = NotFound(req'.handler) /\ db' = db) ]_vars

\* an Update of an identifier that was never issued was answered not-found
\* while the collection held a record
C3_Witness ==
  /\ req.handler = "update_score"
  /\ ObjectIdValid(req.id) /\ ObjectId(req.id) \notin Issued
  /\ resp = NotFound("update_score")
  /\ db.scores # {}

(***************************************************************************)
(* C4: a Read of an identifier whose last acknowledged write is an Update  *)
(* returns exactly the informational fields of that Update's payload.      *)
(***************************************************************************)
C4_UpdateThenReadReturnsPayload ==
  (req.handler \in Reads /\ ObjectIdValid(req.id))
    => \A e \in acked[CollOf(req.handler)] :
         (e.id = ObjectId(req.id) /\ e.by = "update")
           => /\ resp.status = 200
              /\ InfoEquals(CollOf(req.handler), resp.body, e.input)

(***************************************************************************)
(* C5: a Delete of an existing identifier reports success and removes the  *)
(* record; an issued identifier that is absent from a collection stays     *)
(* absent, and every Read, Update and Delete of it answers not-found.      *)
(***************************************************************************)
C5_DeleteIsPermanent ==
  [][ \A c \in Colls :
        /\ ( /\ req'.handler \in Deletes /\ CollOf(req'.handler) = c
             /\ ObjectIdValid(req'.id) /\ ObjectId(req'.id) \in Ids(db[c]) )
           => /\ resp'.status = 200
              /\ ObjectId(req'.id) \notin Ids(db'[c])
        /\ \A oid \in Issued : oid \notin Ids(db[c]) => oid \notin Ids(db'[c])
        /\ ( /\ req'.handler \in Reads \cup Updates \cup Deletes /\ CollOf(req'.handler) = c
             /\ BodyAccepted(req')
             /\ ObjectIdValid(req'.id) /\ ObjectId(req'.id) \in Issued \ Ids(db[c]) )
           => resp' = NotFound(req'.handler) ]_vars

\* a second Delete of an identifier that was issued and is gone from every
\* collection was answered not-found
C5_Witness ==
  /\ req.handler \in Deletes /\ ObjectIdValid(req.id)
  /\ ObjectId(req.id) \in Issued
  /\ \A c \in Colls : ObjectId(req.id) \notin Ids(db[c])
  /\ resp = NotFound(req.handler)

(***************************************************************************)
(* C6: a score Create or Update whose score is not a JSON integer, or      *)
(* whose player_name is not a JSON string, is answered with the            *)
(* validation error.                                                       *)
(***************************************************************************)
C6_NonIntegerScoreRejected ==
  ( /\ req.handler \in {"add_score", "update_score"}
    /\ (req.body.score.kind # "int" \/ req.body.player_name.kind # "str") )
    => resp = RequestValidationError

(***************************************************************************)
(* C7: identifiers are unique within a collection, the identifier a        *)
(* successful Create returns is new to its collection, and no other        *)
(* operation adds or changes an identifier (a Delete only removes one).    *)
(***************************************************************************)
C7_IdentifiersStable ==
  [][ \A c \in Colls :
        /\ Unique(db[c]) /\ Unique(db'[c])
        /\ IF req'.handler \in Creates /\ CollOf(req'.handler) = c /\ resp'.status = 200
           THEN /\ ObjectId(resp'.body.id) \notin Ids(db[c])
                /\ Ids(db'[c]) = Ids(db[c]) \cup {ObjectId(resp'.body.id)}
           ELSE IF req'.handler \in Deletes /\ CollOf(req'.handler) = c
           THEN Ids(db'[c]) \subseteq Ids(db[c])
           ELSE Ids(db'[c]) = Ids(db[c]) ]_vars

\* a Create succeeded in a collection that already held a record
C7_Witness ==
  /\ req.handler \in Creates /\ resp.status = 200
  /\ Cardinality(db[CollOf(req.handler)]) >= 2

(***************************************************************************)
(* C10: a Read changes nothing; a Create adds one record to its own        *)
(* collection and alters none; an Update or Delete changes at most the     *)
(* record it addresses; the other two collections are never touched.       *)
(***************************************************************************)
C10_Frame ==
  [][ \A c \in Colls :
        IF req'.handler \in Reads \/ CollOf(req'.handler) # c
        THEN db'[c] = db[c]
        ELSE IF req'.handler \in Creates
        THEN /\ db[c] \subseteq db'[c]
             /\ Cardinality(db'[c] \ db[c]) = (IF resp'.status = 200 THEN 1 ELSE 0)
        ELSE /\ \A d \in db[c] :
                  (~ObjectIdValid(req'.id) \/ d._id # ObjectId(req'.id)) => d \in db'[c]
             /\ \A d \in db'[c] :
                  d \in db[c] \/ (ObjectIdValid(req'.id) /\ d._id = ObjectId(req'.id)) ]_vars

\* an Update succeeded in a collection holding a second record
C10_Witness ==
  /\ req.handler \in Updates /\ resp.status = 200
  /\ Cardinality(db[CollOf(req.handler)]) >= 2

(***************************************************************************)
(* The codec on every short file content: one asset is uploaded and then   *)
(* updated, with contents of every length up to MaxLen.                    *)
(***************************************************************************)
CodecContents == UNION {[1..n -> ByteSample] : n \in 0..MaxLen}
CodecFiles ==
  Files \cup {[filename |-> "c.bin", content |-> c, content_type |-> "application/octet-stream"] :
                c \in CodecContents}
FirstId == ObjectIdStr(NewObjectId(1))

NextCodec ==
  \/ \E file \in CodecFiles : oid_counter = 0 /\ upload_sprite(file) /\ UNCHANGED acked
  \/ \E file \in CodecFiles : oid_counter = 0 /\ upload_audio(file) /\ UNCHANGED acked
  \/ \E file \in CodecFiles : db.sprites # {} /\ update_sprite(FirstId, file) /\ UNCHANGED acked
  \/ \E file \in CodecFiles : db.audio # {} /\ update_audio(FirstId, file) /\ UNCHANGED acked

SpecCodec == Init /\ [][NextCodec]_vars

(***************************************************************************)
(* C8: after a successful sprite or audio Create or Update, decoding the   *)
(* content_base64 the record now holds gives back the uploaded bytes,      *)
(* for every content including the empty one.                              *)
(***************************************************************************)
C8_CodecRoundTrip ==
  ( /\ req.handler \in {"upload_sprite", "upload_audio", "update_sprite", "update_audio"}
    /\ resp.status = 200 )
    => LET oid == IF req.handler \in Creates THEN ObjectId(resp.body.id) ELSE ObjectId(req.id)
       IN  \E d \in db[CollOf(req.handler)] :
             d._id = oid /\ b64decode(d.content_base64) = req.file.content

\* an Update stored a content whose last group needs padding
C8_Witness ==
  /\ req.handler = "update_audio" /\ resp.status = 200
  /\ Len(req.file.content) = 2
  /\ \E d \in db.audio : Len(d.content_base64) = 4

(***************************************************************************)
(* Two requests in flight: an Update and a Delete of the same existing     *)
(* record.  A handler runs up to its next await, so the steps of the two   *)
(* interleave at the awaits: file.read(), the store call, the response.    *)
(* The store performs each single-document call atomically.                *)
(***************************************************************************)
Task(handler, id, file, body) ==
  [handler |-> handler, id |-> id, file |-> file, body |-> body,
   pc |-> IF handler \in {"update_sprite", "update_audio"} THEN "read" ELSE "store",
   count |-> 0, at |-> 0, resp |-> Ok([message |-> "pending"])]

\* how many store calls have taken effect
StoreCalls == Cardinality({i \in DOMAIN tasks : tasks[i].at > 0})

\* content = await file.read(); encoded = base64.b64encode(content)
TaskRead(i) ==
  /\ tasks[i].pc = "read"
  /\ tasks' = [tasks EXCEPT ![i].pc = "store"]
  /\ UNCHANGED << db, oid_counter, req, resp, acked >>

\* await db.<coll>.update_one(...) / await db.<coll>.delete_one(...)
TaskStore(i) ==
  LET t == tasks[i]
      c == CollOf(t.handler)
      fields == IF c = "scores" THEN PlayerScoreDict(t.body)
                ELSE [filename |-> t.file.filename,
                      content_base64 |-> b64encode(t.file.content),
                      content_type |-> t.file.content_type]
  IN  /\ t.pc = "store"
      /\ IF ~ObjectIdValid(t.id)
         THEN /\ tasks' = [tasks EXCEPT ![i].pc = "done", ![i].resp = InternalServerError]
              /\ db' = db
         ELSE IF t.handler \in Updates
         THEN LET update_result == update_one(db[c], ObjectId(t.id), fields)
              IN  /\ db' = [db EXCEPT ![c] = update_result.coll]
                  /\ tasks' = [tasks EXCEPT ![i].pc = "respond",
                                            ![i].count = update_result.matched_count,
                                            ![i].at = StoreCalls + 1]
         ELSE LET delete_result == delete_one(db[c], ObjectId(t.id))
              IN  /\ db' = [db EXCEPT ![c] = delete_result.coll]
                  /\ tasks' = [tasks EXCEPT ![i].pc = "respond",
                                            ![i].count = delete_result.deleted_count,
                                            ![i].at = StoreCalls + 1]
      /\ UNCHANGED << oid_counter, req, resp, acked >>

\* if ..._count == 0: raise HTTPException(404, ...); return {"message": ...}
TaskRespond(i) ==
  LET t == tasks[i]
      kind == IF CollOf(t.handler) = "sprites" THEN "Sprite"
              ELSE IF CollOf(t.handler) = "audio" THEN "Audio" ELSE "Score"
      message == IF t.handler \in Updates
                 THEN (IF kind = "Sprite" THEN "Sprite updated"
                       ELSE IF kind = "Audio" THEN "Audio updated" ELSE "Score updated")
                 ELSE (IF kind = "Sprite" THEN "Sprite deleted"
                       ELSE IF kind = "Audio" THEN "Audio deleted" ELSE "Score deleted")
  IN  /\ t.pc = "respond"
      /\ tasks' = [tasks EXCEPT ![i].pc = "done",
                                ![i].resp = IF t.count = 0 THEN NotFound(t.handler)
                                            ELSE serialize_response([message |-> message])]
      /\ UNCHANGED << db, oid_counter, req, resp, acked >>

\* one record exists (the n-th inserted); an Update and a Delete of it arrive
InitRace ==
  \E n \in 1..MaxIds, c \in Colls :
    \E old \in (IF c = "scores" THEN {b \in Bodies : PlayerScoreValid(b)} ELSE Files),
       new \in (IF c = "scores" THEN {b \in Bodies : PlayerScoreValid(b)} ELSE Files) :
      LET id == ObjectIdStr(NewObjectId(n))
          doc == IF c = "scores" THEN PlayerScoreDict(old)
                 ELSE [filename |-> old.filename, content_base64 |-> b64encode(old.content),
                       content_type |-> old.content_type]
      IN  /\ db = [[sprites |-> {}, audio |-> {}, scores |-> {}] EXCEPT
                     ![c] = insert_one({}, doc, n).coll]
          /\ oid_counter = n
          /\ req = Request("none", NoId, NoFile, NoBody)
          /\ resp = Ok([message |-> "none"])
          /\ acked = [sprites |-> {}, audio |-> {}, scores |-> {}]
          /\ tasks = IF c = "sprites"
                     THEN << Task("update_sprite", id, new, NoBody), Task("delete_sprite", id, NoFile, NoBody) >>
                     ELSE IF c = "audio"
                     THEN << Task("update_audio", id, new, NoBody), Task("delete_audio", id, NoFile, NoBody) >>
                     ELSE << Task("update_score", id, NoFile, new), Task("delete_score", id, NoFile, NoBody) >>

NextRace ==
  \/ \E i \in DOMAIN tasks : TaskRead(i)
  \/ \E i \in DOMAIN tasks : TaskStore(i)
  \/ \E i \in DOMAIN tasks : TaskRespond(i)

SpecRace == InitRace /\ [][NextRace]_vars

(***************************************************************************)
(* C9: when an Update and a Delete of the same existing record race, the   *)
(* Delete always reports success, the record is absent from the moment     *)
(* the Delete took effect (the Update never recreates it), and the Update  *)
(* either came second and reports not-found or came first and reports      *)
(* success with its values lost.                                           *)
(***************************************************************************)
C9_UpdateDeleteRace ==
  LET upd == tasks[1]
      del == tasks[2]
      c == CollOf(upd.handler)
      oid == ObjectId(upd.id)
  IN  /\ del.at > 0 => oid \notin Ids(db[c])
      /\ del.pc = "done" => del.resp.status = 200
      /\ (upd.pc = "done" /\ del.pc = "done")
           => \/ del.at < upd.at /\ upd.resp = NotFound(upd.handler)
              \/ upd.at < del.at /\ upd.resp.status = 200

\* both finished, the Delete's store call having come first
C9_Witness ==
  /\ tasks[1].pc = "done" /\ tasks[2].pc = "done"
  /\ tasks[2].at = 1 /\ tasks[1].at = 2
  /\ tasks[1].resp.status = 404

====
